---- MODULE Spec2Model ----
(***************************************************************************)
(* The two request handlers of the Excalidraw render API:                  *)
(*   src/api/render.js      POST /api/render           (direct SVG markup) *)
(*   src/unnamed/part_000   POST /api/render-puppeteer (headless browser)  *)
(*                                                                         *)
(* A request is handled from `start' to `done' (or `rejected' when the     *)
(* handler's promise rejects).  generateSVG is a pure function of the      *)
(* element list and is modelled as an operator; the markup it emits is     *)
(* kept as a record holding the header numbers and the sequence of drawing *)
(* primitives in document order.                                           *)
(*                                                                         *)
(* Numbers.  A JavaScript number is a record [k, v]: k = "num" with value  *)
(* v, k = "inf" with sign v, k = "nan", or k = "undefined" for a field     *)
(* that is absent from the element.  The header (width, height, offsets)   *)
(* is kept in user units; the geometry of the primitives is kept in tenths *)
(* of a user unit so that width/2 and 1.2 * fontSize stay exact.           *)
(*                                                                         *)
(* Text.  A string is a sequence of characters; "\n" is the newline.       *)
(***************************************************************************)
EXTENDS Integers, Sequences, FiniteSets, TLC

VARIABLES
    which,        \* the handler invoked: "render" or "puppeteer"
    req,          \* the request: [method, body]
    pc,           \* position of the handler
    res,          \* the responses sent so far, in order
    browser,      \* the handler's `browser' variable: "null" or "open"
    launched,     \* puppeteer.launch has succeeded in this invocation
    closeCalls,   \* number of calls of browser.close()
    imageBuffer,  \* the value page.evaluate resolved to
    work          \* rendering work performed: subset of {"bounds","svg","engine"}

vars == <<which, req, pc, res, browser, launched, closeCalls, imageBuffer, work>>

----------------------------------------------------------------------------
(* Bounds of the model *)

MaxLen == 2       \* longest element list
MaxCoord == 1     \* coordinates and extents range over -MaxCoord..MaxCoord
MaxText == 2      \* longest label text, in characters

----------------------------------------------------------------------------
(* JavaScript numbers *)

Fin(n) == [k |-> "num", v |-> n]
PosInf == [k |-> "inf", v |-> 1]
NegInf == [k |-> "inf", v |-> -1]
NaN == [k |-> "nan", v |-> 0]
Undefined == [k |-> "undefined", v |-> 0]

ToNumber(a) == IF a.k = "undefined" THEN NaN ELSE a

JsNeg(a) ==
    LET n == ToNumber(a)
    IN  IF n.k = "nan" THEN NaN ELSE [k |-> n.k, v |-> -(n.v)]

JsAdd(a, b) ==
    LET m == ToNumber(a)
        n == ToNumber(b)
    IN  IF m.k = "nan" \/ n.k = "nan" THEN NaN
        ELSE IF m.k = "num" /\ n.k = "num" THEN Fin(m.v + n.v)
        ELSE IF m.k = "inf" /\ n.k = "inf" THEN (IF m.v = n.v THEN m ELSE NaN)
        ELSE IF m.k = "inf" THEN m
        ELSE n

JsSub(a, b) == JsAdd(a, JsNeg(b))

JsLess(a, b) ==
    IF a.k = "num" /\ b.k = "num" THEN a.v < b.v
    ELSE IF a.k = "inf" /\ b.k = "inf" THEN a.v < b.v
    ELSE IF a.k = "inf" THEN a.v < 0
    ELSE b.v > 0

JsMin(a, b) ==
    LET m == ToNumber(a)
        n == ToNumber(b)
    IN  IF m.k = "nan" \/ n.k = "nan" THEN NaN
        ELSE IF JsLess(n, m) THEN n ELSE m

JsMax(a, b) ==
    LET m == ToNumber(a)
        n == ToNumber(b)
    IN  IF m.k = "nan" \/ n.k = "nan" THEN NaN
        ELSE IF JsLess(m, n) THEN n ELSE m

\* a / 2 on a value whose numerator is even (every value in tenths is)
JsHalf(a) ==
    LET n == ToNumber(a)
    IN  IF n.k = "num" THEN Fin(n.v \div 2) ELSE n

----------------------------------------------------------------------------
(* Field access *)

Has(el, f) == f \in DOMAIN el

\* `${el.f}' / el.f, in tenths
Field(el, f) == IF Has(el, f) THEN Fin(10 * el[f]) ELSE Undefined

\* el.f || 0 on a numeric field, in user units
OrZero(el, f) == IF Has(el, f) /\ el[f] # 0 THEN el[f] ELSE 0

\* el.f || d on a numeric field
OrDefault(el, f, d) == IF Has(el, f) /\ el[f] # 0 THEN el[f] ELSE d

\* el.f || d on a string field
OrString(el, f, d) == IF Has(el, f) /\ el[f] # "" THEN el[f] ELSE d

----------------------------------------------------------------------------
(* Bounding box: render.js 83-98, part_000 88-99 *)

padding == 40

\* the guard with one of the two kinds forgotten
IsSkippedDeleteOnly(el) == el.type = "delete"

IsSkipped(el) == el.type = "cameraUpdate" \/ el.type = "delete"

RECURSIVE BoundsLoop(_, _, _)
BoundsLoop(elements, i, b) ==
    IF i > Len(elements) THEN b
    ELSE LET el == elements[i]
         IN  IF IsSkipped(el) THEN BoundsLoop(elements, i + 1, b)
             ELSE BoundsLoop(elements, i + 1,
                    [minX |-> JsMin(b.minX, Fin(OrZero(el, "x"))),
                     minY |-> JsMin(b.minY, Fin(OrZero(el, "y"))),
                     maxX |-> JsMax(b.maxX, Fin(OrZero(el, "x") + OrZero(el, "width"))),
                     maxY |-> JsMax(b.maxY, Fin(OrZero(el, "y") + OrZero(el, "height")))])

BoundingBox(elements) ==
    BoundsLoop(elements, 1,
               [minX |-> PosInf, minY |-> PosInf, maxX |-> NegInf, maxY |-> NegInf])

Bounds(elements) ==
    LET b == BoundingBox(elements)
    IN  [width   |-> JsAdd(JsSub(b.maxX, b.minX), Fin(padding * 2)),
         height  |-> JsAdd(JsSub(b.maxY, b.minY), Fin(padding * 2)),
         offsetX |-> JsAdd(JsNeg(b.minX), Fin(padding)),
         offsetY |-> JsAdd(JsNeg(b.minY), Fin(padding))]

----------------------------------------------------------------------------
(* Text: String.prototype.split('\n') and escapeXml, render.js 246-253 *)

RECURSIVE SplitLoop(_, _, _, _)
SplitLoop(text, i, cur, acc) ==
    IF i > Len(text) THEN Append(acc, cur)
    ELSE IF text[i] = "\n" THEN SplitLoop(text, i + 1, <<>>, Append(acc, cur))
    ELSE SplitLoop(text, i + 1, Append(cur, text[i]), acc)

SplitLines(text) == SplitLoop(text, 1, <<>>, <<>>)

EscapeChar(c) ==
    CASE c = "&" -> "&amp;"
      [] c = "<" -> "&lt;"
      [] c = ">" -> "&gt;"
      [] c = "\"" -> "&quot;"
      [] c = "'" -> "&apos;"
      [] OTHER -> c

escapeXml(text) == [i \in 1..Len(text) |-> EscapeChar(text[i])]

----------------------------------------------------------------------------
(* Shared styling resolution: render.js 128-133 *)

\* String.prototype.includes on the stroke colours the model draws from
ColorIncludes(color, hex) ==
    \/ color = "#4a9eed" /\ hex = "4a9eed"
    \/ color = "#8b5cf6" /\ hex = "8b5cf6"
    \/ color = "#22c55e" /\ hex = "22c55e"

StrokeDasharray(strokeStyle) ==
    IF strokeStyle = "dashed" THEN "5,5"
    ELSE IF strokeStyle = "dotted" THEN "2,2"
    ELSE "none"

\* opacity is kept in hundredths: the emitted alpha is opacity / 100
Style(el) ==
    [strokeColor     |-> OrString(el, "strokeColor", "#1e1e1e"),
     backgroundColor |-> OrString(el, "backgroundColor", "transparent"),
     strokeWidth     |-> OrDefault(el, "strokeWidth", 2),
     opacity         |-> OrDefault(el, "opacity", 100),
     strokeDasharray |-> StrokeDasharray(OrString(el, "strokeStyle", "solid"))]

\* el.label?.text is truthy
HasLabelText(el) ==
    /\ Has(el, "label")
    /\ Has(el.label, "text")
    /\ el.label.text # <<>>

CenterX(el) == JsAdd(Field(el, "x"), JsHalf(Field(el, "width")))
CenterY(el) == JsAdd(Field(el, "y"), JsHalf(Field(el, "height")))

TextPrim(x, y, anchor, baseline, fontSize, fill, text) ==
    [tag |-> "text", x |-> x, y |-> y, anchor |-> anchor, baseline |-> baseline,
     fontSize |-> fontSize, fill |-> fill, text |-> escapeXml(text)]

----------------------------------------------------------------------------
(* Per-kind drawing: render.js 135-235 *)

\* render.js 144-158
RectangleLabel(el, st) ==
    IF ~HasLabelText(el) THEN <<>>
    ELSE LET fontSize    == OrDefault(el.label, "fontSize", 20)
             lines       == SplitLines(el.label.text)
             lineHeight  == fontSize * 12
             totalHeight == Len(lines) * lineHeight
             startY      == JsAdd(JsSub(CenterY(el), JsHalf(Fin(totalHeight))),
                                  Fin(10 * fontSize))
         IN  [i \in 1..Len(lines) |->
                 TextPrim(CenterX(el), JsAdd(startY, Fin((i - 1) * lineHeight)),
                          "middle", "middle", fontSize, st.strokeColor, lines[i])]

\* render.js 135-158
RenderRectangle(el, st) ==
    <<[tag |-> "rect",
       x |-> Field(el, "x"), y |-> Field(el, "y"),
       width |-> Field(el, "width"), height |-> Field(el, "height"),
       rx |-> IF Has(el, "roundness") /\ Has(el.roundness, "type")
                 /\ el.roundness.type = 3 THEN 8 ELSE 0,
       fill |-> st.backgroundColor, stroke |-> st.strokeColor,
       strokeWidth |-> st.strokeWidth, dash |-> st.strokeDasharray,
       opacity |-> st.opacity]>>
    \o RectangleLabel(el, st)

\* render.js 167-174
EllipseLabel(el, st) ==
    IF ~HasLabelText(el) THEN <<>>
    ELSE <<TextPrim(CenterX(el), CenterY(el), "middle", "middle",
                    OrDefault(el.label, "fontSize", 20), st.strokeColor,
                    el.label.text)>>

\* render.js 159-174
RenderEllipse(el, st) ==
    <<[tag |-> "ellipse",
       cx |-> CenterX(el), cy |-> CenterY(el),
       rx |-> JsHalf(Field(el, "width")), ry |-> JsHalf(Field(el, "height")),
       fill |-> st.backgroundColor, stroke |-> st.strokeColor,
       strokeWidth |-> st.strokeWidth, dash |-> st.strokeDasharray,
       opacity |-> st.opacity]>>
    \o EllipseLabel(el, st)

\* render.js 185-192
DiamondLabel(el, st) ==
    IF ~HasLabelText(el) THEN <<>>
    ELSE <<TextPrim(CenterX(el), CenterY(el), "middle", "middle",
                    OrDefault(el.label, "fontSize", 20), st.strokeColor,
                    el.label.text)>>

\* render.js 175-192
RenderDiamond(el, st) ==
    LET cx == CenterX(el)
        cy == CenterY(el)
    IN  <<[tag |-> "polygon",
           points |-> << <<cx, Field(el, "y")>>,
                         <<JsAdd(Field(el, "x"), Field(el, "width")), cy>>,
                         <<cx, JsAdd(Field(el, "y"), Field(el, "height"))>>,
                         <<Field(el, "x"), cy>> >>,
           fill |-> st.backgroundColor, stroke |-> st.strokeColor,
           strokeWidth |-> st.strokeWidth, dash |-> st.strokeDasharray,
           opacity |-> st.opacity]>>
        \o DiamondLabel(el, st)

\* render.js 200-204
MarkerId(strokeColor) ==
    IF ColorIncludes(strokeColor, "4a9eed") THEN "arrowhead-blue"
    ELSE IF ColorIncludes(strokeColor, "8b5cf6") THEN "arrowhead-purple"
    ELSE IF ColorIncludes(strokeColor, "22c55e") THEN "arrowhead-green"
    ELSE "arrowhead"

\* render.js 193-223
RenderLinear(el, st) ==
    IF ~(Has(el, "points") /\ Len(el.points) >= 2) THEN <<>>
    ELSE LET at(i) == <<JsAdd(Field(el, "x"), Fin(10 * el.points[i][1])),
                        JsAdd(Field(el, "y"), Fin(10 * el.points[i][2]))>>
             midIdx == (Len(el.points) \div 2) + 1
         IN  <<[tag |-> "path",
                d |-> [i \in 1..Len(el.points) |-> at(i)],
                stroke |-> st.strokeColor, strokeWidth |-> st.strokeWidth,
                fill |-> "none", dash |-> st.strokeDasharray,
                opacity |-> st.opacity,
                markerEnd |-> IF Has(el, "endArrowhead") /\ el.endArrowhead = "arrow"
                                 THEN MarkerId(st.strokeColor) ELSE ""]>>
             \o (IF ~HasLabelText(el) THEN <<>>
                 ELSE <<TextPrim(at(midIdx)[1], JsSub(at(midIdx)[2], Fin(50)),
                                 "middle", "",
                                 OrDefault(el.label, "fontSize", 14),
                                 st.strokeColor, el.label.text)>>)

\* render.js 224-235
RenderText(el, st) ==
    LET fontSize   == OrDefault(el, "fontSize", 20)
        lines      == SplitLines(IF Has(el, "text") THEN el.text ELSE <<>>)
        lineHeight == fontSize * 12
    IN  [i \in 1..Len(lines) |->
            TextPrim(Field(el, "x"),
                     JsAdd(JsAdd(Field(el, "y"), Fin(10 * fontSize)),
                           Fin((i - 1) * lineHeight)),
                     "", "", fontSize, st.strokeColor, lines[i])]

\* the body of the render loop for one element: render.js 126-235
RenderElement(el) ==
    IF IsSkipped(el) THEN <<>>
    ELSE LET st == Style(el)
         IN  CASE el.type = "rectangle" -> RenderRectangle(el, st)
               [] el.type = "ellipse" -> RenderEllipse(el, st)
               [] el.type = "diamond" -> RenderDiamond(el, st)
               [] el.type \in {"arrow", "line"} -> RenderLinear(el, st)
               [] el.type = "text" -> RenderText(el, st)
               [] OTHER -> <<>>

\* the loop painting the elements last to first
RECURSIVE RenderLoopReversed(_, _, _)
RenderLoopReversed(elements, i, svgContent) ==
    IF i > Len(elements) THEN svgContent
    ELSE RenderLoopReversed(elements, i + 1, svgContent) \o RenderElement(elements[i])

\* elements.forEach(...) appending to svgContent: render.js 125-236
RECURSIVE RenderLoop(_, _, _)
RenderLoop(elements, i, svgContent) ==
    IF i > Len(elements) THEN svgContent
    ELSE RenderLoop(elements, i + 1, svgContent \o RenderElement(elements[i]))

\* render.js 79-243
generateSVG(elements, appState) ==
    LET b == Bounds(elements)
        viewBackgroundColor ==
            IF Has(appState, "viewBackgroundColor")
            THEN appState.viewBackgroundColor ELSE "#ffffff"
    IN  [width |-> b.width, height |-> b.height,
         offsetX |-> b.offsetX, offsetY |-> b.offsetY,
         prims |-> RenderLoop(elements, 1,
                     <<[tag |-> "background", fill |-> viewBackgroundColor]>>)]

----------------------------------------------------------------------------
(* Requests *)

EmptyObject == <<>>              \* {}
JsNull == [isNull |-> TRUE]      \* null

\* a value of the `elements' field: an array, or something that is not one
Array(items) == [isArray |-> TRUE, items |-> items]
NotArray == [isArray |-> FALSE, items |-> <<>>]

Coords == -MaxCoord..MaxCoord

\* geometry of a visible element: every (position, extent) pair of Coords
\* occurs along both axes, and the extent may be missing altogether
Boxes ==
    {[x |-> a, y |-> b, width |-> b, height |-> a] : a \in Coords, b \in Coords}
    \cup {[x |-> a, y |-> -a] : a \in Coords}

\* geometry of elements lying outside everything in Boxes, and no geometry
Far == MaxCoord + 5
FarBoxes ==
    {[x |-> -Far, y |-> -Far, width |-> 1, height |-> 1],
     [x |-> Far, y |-> Far, width |-> Far, height |-> Far],
     [x |-> 0, y |-> 0, width |-> -(3 * Far), height |-> 3 * Far],
     EmptyObject}

SkippedKinds == {"delete", "cameraUpdate"}
GeoElems ==
    {[type |-> "rectangle"] @@ b : b \in Boxes}
    \cup {[type |-> t] @@ b : t \in SkippedKinds, b \in FarBoxes}

\* the smaller geometry the browser handler is driven with
SmallBoxes ==
    {[x |-> a, y |-> -a, width |-> 1, height |-> 2] : a \in Coords}
    \cup {[x |-> 0, y |-> 0]}
SmallElems ==
    {[type |-> "rectangle"] @@ b : b \in SmallBoxes}
    \cup {[type |-> "delete", x |-> Far, y |-> -Far, width |-> Far, height |-> 1],
          [type |-> "cameraUpdate", x |-> -Far, y |-> Far, width |-> 1, height |-> Far]}

Chars == {"a", "&", "\n"}
Texts == UNION {[1..n -> Chars] : n \in 0..MaxText}
Labels ==
    {[text |-> t] : t \in Texts} \cup {[text |-> t, fontSize |-> 10] : t \in Texts}

\* elements that differ in styling and label
LabelledKinds == {"rectangle", "ellipse", "diamond"}
StyleBase == [x |-> MaxCoord, y |-> -MaxCoord, width |-> 4, height |-> 2]
StyleElems ==
    {[type |-> t, label |-> l] @@ StyleBase : t \in LabelledKinds, l \in Labels}
    \cup {[type |-> t, opacity |-> o] @@ StyleBase :
             t \in LabelledKinds \cup {"text", "delete"}, o \in {0, 50, 100}}
    \cup {[type |-> t, strokeWidth |-> w] @@ StyleBase :
             t \in LabelledKinds, w \in {0, 1, 4}}
    \cup {[type |-> "rectangle", strokeStyle |-> d, roundness |-> [type |-> r]]
             @@ StyleBase : d \in {"", "dashed", "dotted"}, r \in {2, 3}}

\* elements of every kind, pairwise different in what they draw
Zigzag == << <<0, 0>>, <<2, 0>>, <<2, 2>> >>
PaintElems ==
    {[type |-> "rectangle", label |-> [text |-> <<"a", "\n", "<">>]] @@ StyleBase,
     [type |-> "rectangle", backgroundColor |-> "#fff", strokeColor |-> "#000"]
         @@ StyleBase,
     [type |-> "ellipse", label |-> [text |-> <<"a", "\n">>]] @@ StyleBase,
     [type |-> "diamond", label |-> [text |-> <<"b">>]] @@ StyleBase,
     [type |-> "text", x |-> 0, y |-> 0, text |-> <<"a", "\n", "b">>],
     [type |-> "text", x |-> 1, y |-> 1],
     [type |-> "arrow", x |-> 0, y |-> 0, points |-> Zigzag,
      endArrowhead |-> "arrow", strokeColor |-> "#4a9eed",
      label |-> [text |-> <<"'">>]],
     [type |-> "line", x |-> 1, y |-> 0, points |-> Zigzag,
      strokeColor |-> "#22c55e"],
     [type |-> "line", x |-> 0, y |-> 0, points |-> << <<0, 0>> >>],
     [type |-> "image", x |-> 0, y |-> 0, width |-> 2, height |-> 2],
     [type |-> "delete", label |-> [text |-> <<"a">>]] @@ StyleBase,
     [type |-> "cameraUpdate", x |-> -MaxCoord, y |-> 0, width |-> 8, height |-> 8]}

RECURSIVE ListsOf(_, _)
ListsOf(S, n) ==
    IF n = 0 THEN {<<>>}
    ELSE LET shorter == ListsOf(S, n - 1)
         IN  shorter \cup {Append(l, e) : l \in {m \in shorter : Len(m) = n - 1}, e \in S}

Post(elements) == [method |-> "POST", body |-> [elements |-> Array(elements)]]

\* requests exercising every path of the handlers
BaseElementValues ==
    {NotArray, Array(<<>>),
     Array(<<[type |-> "rectangle", x |-> 0, y |-> 0, width |-> 100, height |-> 50,
              strokeColor |-> "#000", backgroundColor |-> "#fff"]>>),
     Array(<<[type |-> "delete", x |-> 7, y |-> 7]>>)}
BaseBodies ==
    {e @@ a @@ f @@ fmt :
        e \in {EmptyObject} \cup {[elements |-> v] : v \in BaseElementValues},
        a \in {EmptyObject, [appState |-> JsNull],
               [appState |-> [viewBackgroundColor |-> "#000"]]},
        f \in {EmptyObject, [files |-> [f1 |-> "data"]]},
        fmt \in {EmptyObject} \cup {[format |-> x] : x \in {"svg", "png", "json", "bmp"}}}
BaseRequests ==
    {[method |-> m] : m \in {"OPTIONS", "GET", "POST"}}
    \cup {[method |-> m, body |-> b] : m \in {"GET", "POST"}, b \in BaseBodies}

RenderRequests ==
    BaseRequests
    \cup {Post(l) : l \in ListsOf(GeoElems, MaxLen)}
    \cup {Post(l) : l \in ListsOf(PaintElems, MaxLen)}
    \cup {Post(<<e>>) : e \in StyleElems}

PuppeteerRequests ==
    BaseRequests
    \cup {Post(l) : l \in ListsOf(SmallElems, MaxLen)}

----------------------------------------------------------------------------
(* Responses *)

Response(status, kind, body) == [status |-> status, kind |-> kind, body |-> body]

MethodNotAllowed == Response(405, "json", [error |-> "Method not allowed"])
BadRequest ==
    Response(400, "json", [error |-> "Invalid request. \"elements\" array is required."])
ServerError == Response(500, "json", [error |-> "Failed to render diagram"])

\* the destructuring of req.body with its defaults
BodyField(body, f, d) == IF Has(body, f) THEN body[f] ELSE d

\* !elements || !Array.isArray(elements)
ElementsInvalid(body) == ~Has(body, "elements") \/ ~body.elements.isArray

----------------------------------------------------------------------------
(* POST /api/render: render.js 24-76 *)

RenderHandler ==
    /\ which = "render"
    /\ pc = "start"
    /\ pc' = "done"
    /\ UNCHANGED <<which, req, browser, launched, closeCalls, imageBuffer>>
    /\ IF req.method = "OPTIONS"
       THEN /\ res' = Append(res, Response(200, "end", EmptyObject))
            /\ work' = work
       ELSE IF req.method # "POST"
       THEN /\ res' = Append(res, MethodNotAllowed)
            /\ work' = work
       ELSE IF ~Has(req, "body")
       THEN \* destructuring undefined throws
            /\ res' = Append(res, ServerError)
            /\ work' = work
       ELSE LET elements == BodyField(req.body, "elements", NotArray)
                appState == BodyField(req.body, "appState", EmptyObject)
                files    == BodyField(req.body, "files", EmptyObject)
                format   == BodyField(req.body, "format", "svg")
            IN  IF ElementsInvalid(req.body)
                THEN /\ res' = Append(res, BadRequest)
                     /\ work' = work
                ELSE IF format = "json"
                THEN /\ res' = Append(res, Response(200, "json",
                                 [elements |-> elements.items,
                                  appState |-> appState, files |-> files]))
                     /\ work' = work
                ELSE IF appState = JsNull
                THEN \* generateSVG destructures null and throws
                     /\ res' = Append(res, ServerError)
                     /\ work' = work \cup {"svg"}
                ELSE /\ res' = Append(res, Response(200, "svg",
                                 generateSVG(elements.items, appState)))
                     /\ work' = work \cup {"svg", "bounds"}

----------------------------------------------------------------------------
(* POST /api/render-puppeteer: part_000 18-131 *)

NoImage == <<>>

\* part_000 19-28: the method checks
PuppeteerMethod ==
    /\ which = "puppeteer"
    /\ pc = "start"
    /\ IF req.method = "OPTIONS"
       THEN /\ res' = Append(res, Response(200, "end", EmptyObject))
            /\ pc' = "done"
       ELSE IF req.method # "POST"
       THEN /\ res' = Append(res, MethodNotAllowed)
            /\ pc' = "done"
       ELSE /\ res' = res
            /\ pc' = "try"
    /\ UNCHANGED <<which, req, browser, launched, closeCalls, imageBuffer, work>>

\* part_000 33-39: destructuring and validation
PuppeteerValidate ==
    /\ which = "puppeteer"
    /\ pc = "try"
    /\ IF ~Has(req, "body")
       THEN /\ pc' = "catch"
            /\ res' = res
       ELSE IF ElementsInvalid(req.body)
       THEN /\ res' = Append(res, BadRequest)
            /\ pc' = "done"
       ELSE /\ res' = res
            /\ pc' = "launch"
    /\ UNCHANGED <<which, req, browser, launched, closeCalls, imageBuffer, work>>

\* part_000 42-47: browser = await puppeteer.launch(...)
PuppeteerLaunch ==
    /\ which = "puppeteer"
    /\ pc = "launch"
    /\ \E ok \in BOOLEAN :
          IF ok
          THEN /\ browser' = "open"
               /\ launched' = TRUE
               /\ work' = work \cup {"engine"}
               /\ pc' = "newPage"
          ELSE /\ pc' = "catch"
               /\ UNCHANGED <<browser, launched, work>>
    /\ UNCHANGED <<which, req, res, closeCalls, imageBuffer>>

\* an awaited browser step that either resolves or rejects
PageStep(from, to) ==
    /\ which = "puppeteer"
    /\ pc = from
    /\ \E ok \in BOOLEAN : pc' = IF ok THEN to ELSE "catch"
    /\ UNCHANGED <<which, req, res, browser, launched, closeCalls, imageBuffer, work>>

PuppeteerNewPage == PageStep("newPage", "setViewport")         \* part_000 49
PuppeteerSetViewport == PageStep("setViewport", "goto")        \* part_000 52-56
PuppeteerGoto == PageStep("goto", "waitForFunction")           \* part_000 59-61
PuppeteerWaitForFunction == PageStep("waitForFunction", "evaluate") \* part_000 64-66

\* part_000 69-103: the function evaluated in the page; the data URL is kept
\* as the numbers assigned to canvas.width / canvas.height and the MIME type
EvaluateInPage(elements, format) ==
    LET b == Bounds(elements)
    IN  [width |-> b.width, height |-> b.height, mime |-> format]

PuppeteerEvaluate ==
    /\ which = "puppeteer"
    /\ pc = "evaluate"
    /\ LET elements == req.body.elements.items
           appState == BodyField(req.body, "appState", EmptyObject)
           format   == BodyField(req.body, "format", "png")
       IN  \E ok \in BOOLEAN :
              IF ok /\ appState # JsNull
              THEN /\ imageBuffer' = <<EvaluateInPage(elements, format)>>
                   /\ work' = work \cup {"bounds"}
                   /\ pc' = "close"
              ELSE /\ pc' = "catch"
                   /\ UNCHANGED <<imageBuffer, work>>
    /\ UNCHANGED <<which, req, res, browser, launched, closeCalls>>

\* part_000 105-106: await browser.close(); browser = null
PuppeteerClose ==
    /\ which = "puppeteer"
    /\ pc = "close"
    /\ closeCalls' = closeCalls + 1
    /\ \E ok \in BOOLEAN :
          IF ok
          THEN /\ browser' = "null"
               /\ pc' = "send"
          ELSE /\ browser' = browser
               /\ pc' = "catch"
    /\ UNCHANGED <<which, req, res, launched, imageBuffer, work>>

\* part_000 109-117: decode the data URL and send it
PuppeteerSend ==
    /\ which = "puppeteer"
    /\ pc = "send"
    /\ res' = Append(res, Response(200, "image", imageBuffer[1]))
    /\ pc' = "done"
    /\ UNCHANGED <<which, req, browser, launched, closeCalls, imageBuffer, work>>

\* the catch block without its release of the browser
PuppeteerCatchNoClose ==
    /\ which = "puppeteer"
    /\ pc = "catch"
    /\ pc' = "respond"
    /\ UNCHANGED <<which, req, res, browser, launched, closeCalls, imageBuffer, work>>

\* part_000 119-124: catch, releasing the browser when one is held
PuppeteerCatch ==
    /\ which = "puppeteer"
    /\ pc = "catch"
    /\ IF browser # "null"
       THEN /\ closeCalls' = closeCalls + 1
            /\ \E ok \in BOOLEAN : pc' = IF ok THEN "respond" ELSE "rejected"
       ELSE /\ closeCalls' = closeCalls
            /\ pc' = "respond"
    /\ UNCHANGED <<which, req, res, browser, launched, imageBuffer, work>>

\* part_000 126-129
PuppeteerRespondError ==
    /\ which = "puppeteer"
    /\ pc = "respond"
    /\ res' = Append(res, ServerError)
    /\ pc' = "done"
    /\ UNCHANGED <<which, req, browser, launched, closeCalls, imageBuffer, work>>

----------------------------------------------------------------------------
(* Specification *)

Init ==
    /\ which \in {"render", "puppeteer"}
    /\ req \in (IF which = "render" THEN RenderRequests ELSE PuppeteerRequests)
    /\ pc = "start"
    /\ res = <<>>
    /\ browser = "null"
    /\ launched = FALSE
    /\ closeCalls = 0
    /\ imageBuffer = NoImage
    /\ work = {}

Next ==
    \/ RenderHandler
    \/ PuppeteerMethod
    \/ PuppeteerValidate
    \/ PuppeteerLaunch
    \/ PuppeteerNewPage
    \/ PuppeteerSetViewport
    \/ PuppeteerGoto
    \/ PuppeteerWaitForFunction
    \/ PuppeteerEvaluate
    \/ PuppeteerClose
    \/ PuppeteerSend
    \/ PuppeteerCatch
    \/ PuppeteerRespondError

Spec == Init /\ [][Next]_vars

TypeOK ==
    /\ which \in {"render", "puppeteer"}
    /\ pc \in {"start", "try", "launch", "newPage", "setViewport", "goto",
               "waitForFunction", "evaluate", "close", "send", "catch",
               "respond", "rejected", "done"}
    /\ browser \in {"null", "open"}
    /\ launched \in BOOLEAN
    /\ closeCalls \in 0..2
    /\ Len(imageBuffer) <= 1
    /\ work \subseteq {"bounds", "svg", "engine"}

----------------------------------------------------------------------------
(* Vocabulary of the properties *)

IsPost == req.method = "POST"
ValidPost == IsPost /\ Has(req, "body") /\ ~ElementsInvalid(req.body)
Elements == req.body.elements.items
Finished == pc \in {"done", "rejected"}

\* the handler of render.js has answered with SVG markup
SentSvg == which = "render" /\ pc = "done" /\ Len(res) = 1 /\ res[1].kind = "svg"
Svg == res[1].body

RequestedFormat(default) == BodyField(req.body, "format", default)

\* the list without its delete / cameraUpdate elements
Renderable(l) == SelectSeq(l, LAMBDA e : e.type \notin {"delete", "cameraUpdate"})

Range(f) == {f[i] : i \in DOMAIN f}

\* a field of an element, 0 when it is missing
Val(el, f) == IF f \in DOMAIN el THEN el[f] ELSE 0

\* the number of lines of a text: one more than its newlines
LineCount(text) == 1 + Cardinality({i \in DOMAIN text : text[i] = "\n"})

----------------------------------------------------------------------------
(* C1: rendering a scene with no renderable element fails with an          *)
(* InvalidSceneError and no SVG markup is returned: an SVG request whose   *)
(* element list is empty ends in a failure response, never in markup.      *)
C1_EmptySceneFails ==
    (/\ which = "render"
     /\ pc = "done"
     /\ ValidPost
     /\ Elements = <<>>
     /\ RequestedFormat("svg") = "svg")
    => (/\ Len(res) = 1
        /\ res[1].status # 200
        /\ res[1].kind # "svg")

(* C2: delete and cameraUpdate elements never affect bounds or output:     *)
(* the markup generated for a list (header numbers and primitives) is the  *)
(* markup generated for the list with those elements removed, and the      *)
(* canvas the browser handler sizes is the canvas for that shorter list.   *)
C2_SkippedKindsInert ==
    /\ SentSvg =>
          Svg = generateSVG(Renderable(Elements),
                            BodyField(req.body, "appState", EmptyObject))
    /\ (which = "puppeteer" /\ imageBuffer # NoImage) =>
          imageBuffer[1] = EvaluateInPage(Renderable(Elements), RequestedFormat("png"))

\* a skipped element with geometry of its own precedes a visible one
C2_Witness ==
    /\ SentSvg
    /\ Len(Elements) = 2
    /\ Elements[1].type = "cameraUpdate"
    /\ Has(Elements[1], "width")
    /\ Elements[2].type = "rectangle"
    /\ Svg.width.k = "num"

\* the translated box of el lies within the padded surface
InsidePadding(el) ==
    LET left   == Val(el, "x") + Svg.offsetX.v
        right  == Val(el, "x") + Val(el, "width") + Svg.offsetX.v
        top    == Val(el, "y") + Svg.offsetY.v
        bottom == Val(el, "y") + Val(el, "height") + Svg.offsetY.v
    IN  /\ Svg.offsetX.k = "num" /\ Svg.offsetY.k = "num"
        /\ Svg.width.k = "num" /\ Svg.height.k = "num"
        /\ padding <= left /\ left <= Svg.width.v - padding
        /\ padding <= right /\ right <= Svg.width.v - padding
        /\ padding <= top /\ top <= Svg.height.v - padding
        /\ padding <= bottom /\ bottom <= Svg.height.v - padding

(* C3: for every non-empty element list the offsets place the bounding box *)
(* of every non-skipped element, from (x, y) to (x + width, y + height),   *)
(* between padding and width - padding horizontally and between padding    *)
(* and height - padding vertically, a missing width or height counting 0.  *)
C3_BoxInsidePadding ==
    (SentSvg /\ Elements # <<>>) =>
        \A i \in 1..Len(Elements) :
            Elements[i].type \notin {"delete", "cameraUpdate"}
                => InsidePadding(Elements[i])

(* C4: paint order is array order: the background fill is the first        *)
(* primitive and the only one of its kind; every primitive an element      *)
(* draws is in the output; and when the elements of the list draw pairwise *)
(* different primitives, every primitive of an earlier element lies before *)
(* every primitive of a later element.                                     *)
C4_PaintOrder ==
    SentSvg =>
        LET prims == Svg.prims
            drawn(i) == Range(RenderElement(Elements[i]))
            idx == 1..Len(Elements)
        IN  /\ prims[1].tag = "background"
            /\ \A p \in 2..Len(prims) : prims[p].tag # "background"
            /\ \A i \in idx : drawn(i) \subseteq Range(prims)
            /\ (\A i, j \in idx : i # j => drawn(i) \cap drawn(j) = {}) =>
                  \A i, j \in idx : \A p, q \in 2..Len(prims) :
                      (i < j /\ prims[p] \in drawn(i) /\ prims[q] \in drawn(j))
                          => p < q

\* a labelled shape (shape and two label lines) is followed by another shape
C4_Witness ==
    /\ SentSvg
    /\ Len(Elements) = 2
    /\ Elements[1].type = "rectangle"
    /\ Elements[2].type = "diamond"
    /\ Len(Svg.prims) = 6
    /\ Svg.prims[2].tag = "rect"
    /\ Svg.prims[4].tag = "text"
    /\ Svg.prims[5].tag = "polygon"

(* C5: a request with format "json" and a valid elements array is a        *)
(* pass-through in both handlers: no bounds are computed, no SVG is        *)
(* generated, no browser is acquired, and the one response is the echo     *)
(* {elements, appState, files} with appState and files defaulting to {}.   *)
C5_JsonPassThrough ==
    (ValidPost /\ RequestedFormat("") = "json") =>
        /\ work = {}
        /\ Finished =>
              res = <<Response(200, "json",
                        [elements |-> Elements,
                         appState |-> BodyField(req.body, "appState", EmptyObject),
                         files    |-> BodyField(req.body, "files", EmptyObject)])>>

(* C6: a request whose format is outside {png, svg, json} ends in a        *)
(* structured failure: the one response is an error, and neither image     *)
(* bytes nor SVG markup are returned.                                      *)
C6_UnsupportedFormat ==
    (/\ ValidPost
     /\ Has(req.body, "format")
     /\ req.body.format \notin {"png", "svg", "json"}
     /\ pc = "done")
    => (/\ Len(res) = 1
        /\ res[1].status # 200
        /\ res[1].kind \notin {"svg", "image"})

(* C7: in the browser handler, once puppeteer.launch has succeeded,        *)
(* browser.close() has been called before the handler sends a response or  *)
(* rejects; and it is never called when no browser was acquired.           *)
C7_BrowserReleased ==
    /\ (launched /\ pc \in {"send", "respond", "done", "rejected"}) => closeCalls >= 1
    /\ ~launched => closeCalls = 0

\* a browser step failed after the launch and the 500 response was sent
C7_Witness ==
    /\ which = "puppeteer"
    /\ launched
    /\ imageBuffer = NoImage
    /\ pc = "done"
    /\ res = <<ServerError>>
    /\ closeCalls = 1

\* a field of an element, d only when the element does not carry it
FieldOr(el, f, d) == IF f \in DOMAIN el THEN el[f] ELSE d

(* C8: styling maps opacity to alpha = opacity / 100 for every opacity in  *)
(* 0..100 and uses 100 only when the element carries none; strokeWidth     *)
(* takes its default 2 only when absent.                                   *)
C8_OpacityToAlpha ==
    (SentSvg /\ Len(Elements) = 1 /\ Elements[1].type \in LabelledKinds) =>
        /\ Svg.prims[2].opacity = FieldOr(Elements[1], "opacity", 100)
        /\ Svg.prims[2].strokeWidth = FieldOr(Elements[1], "strokeWidth", 2)

\* the label of el, the only element, is drawn by the multi-line rule
LabelLaidOut(el) ==
    LET n  == LineCount(el.label.text)
        fs == FieldOr(el.label, "fontSize", 20)
        cx == 10 * el.x + 5 * el.width
        cy == 10 * el.y + 5 * el.height
    IN  /\ Len(Svg.prims) = 2 + n
        /\ \A i \in 0..(n - 1) :
              LET t == Svg.prims[3 + i]
              IN  /\ t.tag = "text"
                  /\ t.x = Fin(cx)
                  /\ t.y = Fin(cy - 6 * n * fs + 10 * fs + 12 * i * fs)

(* C9: for rectangle, ellipse and diamond alike, a label of n lines is     *)
(* drawn as n text primitives centred at the centroid x, line i at         *)
(* y = centroidY - n * lineHeight / 2 + fontSize + i * lineHeight with     *)
(* lineHeight = 1.2 * fontSize and fontSize defaulting to 20 (in tenths).  *)
C9_LabelLayout ==
    (/\ SentSvg
     /\ Len(Elements) = 1
     /\ Elements[1].type \in LabelledKinds
     /\ HasLabelText(Elements[1]))
    => LabelLaidOut(Elements[1])

\* exactly one response, with the status the request calls for
OneResponse ==
    /\ Len(res) = 1
    /\ res[1].status \in {200, 400, 405, 500}
    /\ req.method = "OPTIONS" => res[1].status = 200
    /\ req.method \notin {"OPTIONS", "POST"} => res[1].status = 405
    /\ (IsPost /\ ~Has(req, "body")) => res[1].status = 500
    /\ (IsPost /\ Has(req, "body") /\ ElementsInvalid(req.body))
          => res[1].status = 400

(* C10: every invocation of either handler ends having sent exactly one    *)
(* response with status 200, 400, 405 or 500: OPTIONS gives 200, another   *)
(* non-POST method 405, missing or non-array elements 400, and an          *)
(* exception after the method check one 500.                               *)
C10_ExactlyOneResponse == Finished => OneResponse

----------------------------------------------------------------------------
(* Where the code agrees with the refuted statements *)

\* C1, C6: every SVG request with a usable appState is answered with markup
SvgAlwaysAnswered ==
    (/\ which = "render" /\ pc = "done" /\ ValidPost
     /\ RequestedFormat("svg") # "json"
     /\ BodyField(req.body, "appState", EmptyObject) # JsNull)
    => SentSvg /\ res[1].status = 200

\* C3 holds of lists whose visible elements have no negative extent
C3_NonNegativeExtents ==
    (SentSvg /\ Elements # <<>>) =>
        \A i \in 1..Len(Elements) :
            (/\ Elements[i].type \notin {"delete", "cameraUpdate"}
             /\ \A k \in 1..Len(Elements) :
                   Elements[k].type \notin {"delete", "cameraUpdate"}
                      => Val(Elements[k], "width") >= 0 /\ Val(Elements[k], "height") >= 0)
            => InsidePadding(Elements[i])

\* C5 holds of the handler of render.js
C5_RenderJsonPassThrough == which = "render" => C5_JsonPassThrough

\* C8 holds of every opacity and stroke width but 0
C8_NonZero ==
    (/\ SentSvg /\ Len(Elements) = 1
     /\ FieldOr(Elements[1], "opacity", 100) # 0
     /\ FieldOr(Elements[1], "strokeWidth", 2) # 0)
    => C8_OpacityToAlpha

\* C9 holds of rectangles
C9_Rectangle ==
    (SentSvg /\ Len(Elements) = 1 /\ Elements[1].type = "rectangle")
        => C9_LabelLayout

\* C10 holds of every invocation that does not reject
C10_WhenDone == pc = "done" => OneResponse

====
